---- MODULE Spec2Model ----
(***************************************************************************)
(* Recommendation engine and document-ingestion pipeline of the course     *)
(* recommender: keyword extraction (src/services/ai_service.py), corpus    *)
(* store (src/services/database_manager.py), PDF pipeline                  *)
(* (src/services/pdf_service.py) and the orchestrating CourseRecommender   *)
(* (src/app.py).                                                           *)
(*                                                                         *)
(* A Python str is a sequence of one-character strings; Python's None is   *)
(* the value None below.  A Python list whose order the code leaves to the *)
(* hash order of a set (list(results)) is a bag of its items.              *)
(***************************************************************************)
EXTENDS Integers, Sequences, FiniteSets, Bags, TLC

VARIABLES
    config,          \* Config.MAX_KEYWORDS / Config.MIN_KEYWORDS, read from the environment at import
    arg,             \* the arguments of a direct call of one service function
    ret,             \* what that call returned (Pending before the call)
    tables_created,  \* the store's tables exist (create_tables ran)
    courses,         \* table courses, in id order
    pdf_documents,   \* table pdf_documents, a set of rows
    pdf_seq,         \* AUTOINCREMENT counter of pdf_documents
    last             \* the last call made on the CourseRecommender / PDFService and its outcome

vars == <<config, arg, ret, tables_created, courses, pdf_documents, pdf_seq, last>>

-----------------------------------------------------------------------------
(* Python str primitives *)

None == <<"None">>

UpperChars == <<"A","B","C","D","E","F","G","H","I","J","K","L","M",
                "N","O","P","Q","R","S","T","U","V","W","X","Y","Z">>
LowerChars == <<"a","b","c","d","e","f","g","h","i","j","k","l","m",
                "n","o","p","q","r","s","t","u","v","w","x","y","z">>

ToLower == [c \in {UpperChars[i] : i \in DOMAIN UpperChars} |->
               LowerChars[CHOOSE i \in DOMAIN UpperChars : UpperChars[i] = c]]
ToUpper == [c \in {LowerChars[i] : i \in DOMAIN LowerChars} |->
               UpperChars[CHOOSE i \in DOMAIN LowerChars : LowerChars[i] = c]]

char_lower(c) == IF c \in DOMAIN ToLower THEN ToLower[c] ELSE c

char_upper(c) == IF c \in DOMAIN ToUpper THEN ToUpper[c] ELSE c

\* str.lower()
str_lower(s) == [i \in 1..Len(s) |-> char_lower(s[i])]

\* the characters str.split() splits on and str.strip() removes
whitespace == {" ", "\t", "\n", "\r", "\f"}

SetMin(S) == CHOOSE x \in S : \A y \in S : x <= y
SetMax(S) == CHOOSE x \in S : \A y \in S : x >= y

RECURSIVE SortedSeq(_)
SortedSeq(S) == IF S = {} THEN <<>> ELSE <<SetMin(S)>> \o SortedSeq(S \ {SetMin(S)})

\* s.strip(chars)
str_strip_chars(s, chars) ==
    LET keep == {i \in 1..Len(s) : s[i] \notin chars}
    IN  IF keep = {} THEN <<>> ELSE SubSeq(s, SetMin(keep), SetMax(keep))

\* s.strip()
str_strip(s) == str_strip_chars(s, whitespace)

\* s.split(): the maximal runs of non-whitespace characters, in order
str_split(s) ==
    LET n == Len(s)
        starts == {i \in 1..n : s[i] \notin whitespace /\ (i = 1 \/ s[i-1] \in whitespace)}
        EndOf(i) == SetMin({j \in i..n : j = n \/ s[j+1] \in whitespace})
        st == SortedSeq(starts)
    IN  [k \in 1..Len(st) |-> SubSeq(s, st[k], EndOf(st[k]))]

\* s.split(sep) for a one-character separator: the fields between separators, empty ones included
str_split_on(s, sep) ==
    LET n == Len(s)
        cuts == SortedSeq({0, n + 1} \cup {i \in 1..n : s[i] = sep})
    IN  [k \in 1..(Len(cuts) - 1) |-> SubSeq(s, cuts[k] + 1, cuts[k+1] - 1)]

\* sep.join(items)
RECURSIVE str_join(_, _)
str_join(items, sep) ==
    IF items = <<>> THEN <<>>
    ELSE IF Len(items) = 1 THEN items[1]
    ELSE items[1] \o sep \o str_join(Tail(items), sep)

\* items[:n] for n >= 0
Take(items, n) == SubSeq(items, 1, IF n < Len(items) THEN n ELSE Len(items))

\* Python truthiness of an optional str: "not x"
Falsy(x) == x = None \/ x = <<>>

\* the blank test without its strip(): "not text"
IsBlankNoStrip(text) == Falsy(text)

\* "not text or not text.strip()"
IsBlank(text) == Falsy(text) \/ str_strip(text) = <<>>

-----------------------------------------------------------------------------
(* src/config/config.py *)

DEFAULT_MAX_KEYWORDS == 5
DEFAULT_MIN_KEYWORDS == 3

DefaultConfig == [MAX_KEYWORDS |-> DEFAULT_MAX_KEYWORDS, MIN_KEYWORDS |-> DEFAULT_MIN_KEYWORDS]

-----------------------------------------------------------------------------
(* src/services/ai_service.py *)

\* What ollama.chat does on one call: it raises (backend missing, network
\* failure), returns a falsy response, a response without 'message', a
\* message without 'content', or a reply text.
BackendRaises == [kind |-> "raises", content |-> <<>>]
FalsyReply == [kind |-> "falsy", content |-> <<>>]
NoMessage == [kind |-> "no_message", content |-> <<>>]
NoContent == [kind |-> "no_content", content |-> <<>>]
Reply(text) == [kind |-> "reply", content |-> text]

stop_words ==
    { <<"a","n","d">>,
      <<"o","r">>,
      <<"w","i","t","h">>,
      <<"f","o","r">>,
      <<"t","h","i","s">>,
      <<"a">>,
      <<"a","n">>,
      <<"t","h","e">>,
      <<"i","s">>,
      <<"a","r","e">>,
      <<"i">>,
      <<"y","o","u">>,
      <<"h","e">>,
      <<"s","h","e">>,
      <<"i","t">>,
      <<"w","e">>,
      <<"t","h","e","y">>,
      <<"w","h","a","t">>,
      <<"h","o","w">>,
      <<"w","h","e","r","e">>,
      <<"w","h","i","c","h">>,
      <<"w","h","o">>,
      <<"w","h","y">>,
      <<"b","e","c","a","u","s","e">>,
      <<"b","u","t">>,
      <<"h","o","w","e","v","e","r">>,
      <<"a","l","t","h","o","u","g","h">>,
      <<"w","a","n","t">>,
      <<"n","e","e","d">>,
      <<"m","a","k","e">>,
      <<"d","o">>,
      <<"g","e","t">>,
      <<"h","a","v","e">>,
      <<"g","i","v","e">>,
      <<"t","a","k","e">> }

\* the characters word.strip('.,!?;:()[]{}"\'-') removes
strip_punctuation == {".", ",", "!", "?", ";", ":", "(", ")", "[", "]", "{", "}", "\"", "'", "-"}

NonEmpty(s) == s # <<>>

\* [kw.strip() for kw in keywords_text.split(',') if kw.strip()]
parse_keywords(keywords_text) ==
    LET parts == str_split_on(keywords_text, ",")
    IN  SelectSeq([i \in 1..Len(parts) |-> str_strip(parts[i])], NonEmpty)

\* the keyword count check: too few is only logged, too many is cut to MAX_KEYWORDS
limit_keywords(keywords, cfg) ==
    IF Len(keywords) < cfg.MIN_KEYWORDS THEN keywords
    ELSE IF Len(keywords) > cfg.MAX_KEYWORDS THEN Take(keywords, cfg.MAX_KEYWORDS)
    ELSE keywords

\* the token filter without the stop-word test
FallbackKeepStopWords(w) == w # <<>> /\ Len(w) > 2

FallbackKeep(w) == w # <<>> /\ w \notin stop_words /\ Len(w) > 2

\* the stripped, filtered tokens of text.lower().split()
fallback_tokens(text) ==
    LET words == str_split(str_lower(text))
    IN  SelectSeq([i \in 1..Len(words) |-> str_strip_chars(words[i], strip_punctuation)],
                  FallbackKeep)

\* the first n distinct items in order of first occurrence, counts ignored
most_common_unsorted(items, n) ==
    LET first == {i \in 1..Len(items) : \A j \in 1..(i-1) : items[j] # items[i]}
        At(k) == CHOOSE p \in first : Cardinality({q \in first : q < p}) = k - 1
    IN  Take([k \in 1..Cardinality(first) |-> items[At(k)]], n)

\* [word for word, count in Counter(items).most_common(n)], n >= 0: the distinct
\* items by descending count, equal counts in order of first occurrence
most_common(items, n) ==
    LET first == {i \in 1..Len(items) : \A j \in 1..(i-1) : items[j] # items[i]}
        Count(i) == Cardinality({j \in 1..Len(items) : items[j] = items[i]})
        Before(p, q) == Count(p) > Count(q) \/ (Count(p) = Count(q) /\ p < q)
        At(k) == CHOOSE p \in first : Cardinality({q \in first : Before(q, p)}) = k - 1
    IN  Take([k \in 1..Cardinality(first) |-> items[At(k)]], n)

_fallback_keyword_extraction(text, cfg) ==
    most_common(fallback_tokens(text), cfg.MAX_KEYWORDS)

\* extract_keywords whose except clause returns [] instead of falling back
extract_keywords_no_fallback(text, response, cfg) ==
    IF IsBlank(text)
    THEN [keywords |-> <<>>, chat_calls |-> 0, path |-> "blank"]
    ELSE IF response.kind = "reply"
    THEN [keywords |-> limit_keywords(parse_keywords(str_strip(response.content)), cfg),
          chat_calls |-> 1, path |-> "primary"]
    ELSE [keywords |-> <<>>, chat_calls |-> 1, path |-> "invalid"]

\* extract_keywords that treats a reply of fewer than MIN_KEYWORDS terms as an
\* error and falls back
extract_keywords_min_enforced(text, response, cfg) ==
    IF IsBlank(text)
    THEN [keywords |-> <<>>, chat_calls |-> 0, path |-> "blank"]
    ELSE IF response.kind \in {"falsy", "no_message"}
    THEN [keywords |-> <<>>, chat_calls |-> 1, path |-> "invalid"]
    ELSE IF /\ response.kind = "reply"
            /\ Len(parse_keywords(str_strip(response.content))) >= cfg.MIN_KEYWORDS
    THEN [keywords |-> limit_keywords(parse_keywords(str_strip(response.content)), cfg),
          chat_calls |-> 1, path |-> "primary"]
    ELSE [keywords |-> _fallback_keyword_extraction(text, cfg),
          chat_calls |-> 1, path |-> "fallback"]

\* extract_keywords(text) when ollama.chat behaves as response.  chat_calls
\* counts the calls of ollama.chat; path names the return statement taken.
extract_keywords(text, response, cfg) ==
    IF IsBlank(text)
    THEN [keywords |-> <<>>, chat_calls |-> 0, path |-> "blank"]
    ELSE IF response.kind \in {"falsy", "no_message"}
    THEN [keywords |-> <<>>, chat_calls |-> 1, path |-> "invalid"]
    ELSE IF response.kind = "reply"
    THEN [keywords |-> limit_keywords(parse_keywords(str_strip(response.content)), cfg),
          chat_calls |-> 1, path |-> "primary"]
    ELSE [keywords |-> _fallback_keyword_extraction(text, cfg),
          chat_calls |-> 1, path |-> "fallback"]

-----------------------------------------------------------------------------
(* src/services/database_manager.py *)

\* SQLite's "text LIKE pattern": '%' matches any run of characters, '_' any
\* one character, letters match without regard to ASCII case.  p[i..] against t[j..].
RECURSIVE like_from(_, _, _, _)
like_from(p, t, i, j) ==
    IF i > Len(p) THEN j > Len(t)
    ELSE IF p[i] = "%"
         THEN i = Len(p) \/ \E k \in j..(Len(t) + 1) : like_from(p, t, i + 1, k)
         ELSE /\ j <= Len(t)
              /\ (p[i] = "_" \/ char_lower(p[i]) = char_lower(t[j]))
              /\ like_from(p, t, i + 1, j + 1)

\* column LIKE pattern; a NULL column never matches
sql_like(column, pattern) == column # None /\ like_from(pattern, column, 1, 1)

\* f"%{keyword}%"
like_pattern(keyword) == <<"%">> \o keyword \o <<"%">>

\* the list as a bag: the items of a sequence with their multiplicities
RECURSIVE BagOfSeq(_)
BagOfSeq(items) ==
    IF items = <<>> THEN EmptyBag ELSE SetToBag({Head(items)}) (+) BagOfSeq(Tail(items))

SeqRange(items) == {items[i] : i \in DOMAIN items}

sample_courses ==
    << (* Android Development | Developing Android applications with Java | mobile,android,java *)
       [name |-> <<"A","n","d","r","o","i","d"," ","D","e","v","e","l","o","p","m","e","n","t">>,
        description |-> <<"D","e","v","e","l","o","p","i","n","g"," ","A","n","d","r","o","i","d"," ","a","p","p","l","i","c","a","t","i","o","n","s"," ","w","i","t","h"," ","J","a","v","a">>,
        keywords |-> <<"m","o","b","i","l","e",",","a","n","d","r","o","i","d",",","j","a","v","a">>],
       (* iOS Development | iOS applications with Swift | mobile,ios,swift *)
       [name |-> <<"i","O","S"," ","D","e","v","e","l","o","p","m","e","n","t">>,
        description |-> <<"i","O","S"," ","a","p","p","l","i","c","a","t","i","o","n","s"," ","w","i","t","h"," ","S","w","i","f","t">>,
        keywords |-> <<"m","o","b","i","l","e",",","i","o","s",",","s","w","i","f","t">>],
       (* React Native | Cross-platform mobile applications | mobile,react native,cross-platform *)
       [name |-> <<"R","e","a","c","t"," ","N","a","t","i","v","e">>,
        description |-> <<"C","r","o","s","s","-","p","l","a","t","f","o","r","m"," ","m","o","b","i","l","e"," ","a","p","p","l","i","c","a","t","i","o","n","s">>,
        keywords |-> <<"m","o","b","i","l","e",",","r","e","a","c","t"," ","n","a","t","i","v","e",",","c","r","o","s","s","-","p","l","a","t","f","o","r","m">>],
       (* Data Science | Data analysis and machine learning with Python | data science,python,data,ml *)
       [name |-> <<"D","a","t","a"," ","S","c","i","e","n","c","e">>,
        description |-> <<"D","a","t","a"," ","a","n","a","l","y","s","i","s"," ","a","n","d"," ","m","a","c","h","i","n","e"," ","l","e","a","r","n","i","n","g"," ","w","i","t","h"," ","P","y","t","h","o","n">>,
        keywords |-> <<"d","a","t","a"," ","s","c","i","e","n","c","e",",","p","y","t","h","o","n",",","d","a","t","a",",","m","l">>],
       (* Game Development | Game programming with Unity | game,Unity,c# *)
       [name |-> <<"G","a","m","e"," ","D","e","v","e","l","o","p","m","e","n","t">>,
        description |-> <<"G","a","m","e"," ","p","r","o","g","r","a","m","m","i","n","g"," ","w","i","t","h"," ","U","n","i","t","y">>,
        keywords |-> <<"g","a","m","e",",","U","n","i","t","y",",","c","#">>],
       (* Web Development | Websites with HTML, CSS, JavaScript | web,html,css,javascript *)
       [name |-> <<"W","e","b"," ","D","e","v","e","l","o","p","m","e","n","t">>,
        description |-> <<"W","e","b","s","i","t","e","s"," ","w","i","t","h"," ","H","T","M","L",","," ","C","S","S",","," ","J","a","v","a","S","c","r","i","p","t">>,
        keywords |-> <<"w","e","b",",","h","t","m","l",",","c","s","s",",","j","a","v","a","s","c","r","i","p","t">>],
       (* Python Programming | Python programming language fundamentals | python,programming,basics *)
       [name |-> <<"P","y","t","h","o","n"," ","P","r","o","g","r","a","m","m","i","n","g">>,
        description |-> <<"P","y","t","h","o","n"," ","p","r","o","g","r","a","m","m","i","n","g"," ","l","a","n","g","u","a","g","e"," ","f","u","n","d","a","m","e","n","t","a","l","s">>,
        keywords |-> <<"p","y","t","h","o","n",",","p","r","o","g","r","a","m","m","i","n","g",",","b","a","s","i","c","s">>],
       (* Database Management | SQL and database design | database,sql,design *)
       [name |-> <<"D","a","t","a","b","a","s","e"," ","M","a","n","a","g","e","m","e","n","t">>,
        description |-> <<"S","Q","L"," ","a","n","d"," ","d","a","t","a","b","a","s","e"," ","d","e","s","i","g","n">>,
        keywords |-> <<"d","a","t","a","b","a","s","e",",","s","q","l",",","d","e","s","i","g","n">>] >>

\* a get_connection() block that never closes its connection
get_connection_leaking(db_fault) ==
    IF db_fault THEN <<"connect_error">> ELSE <<"connect">>

\* the events of one "with self.get_connection() as conn" block: sqlite3.connect
\* raises (db_fault: the error is logged and raised again), or the connection
\* is opened and the finally clause closes it, however the block ends
get_connection(db_fault) ==
    IF db_fault THEN <<"connect_error">> ELSE <<"connect", "close">>

\* WHERE keywords LIKE ? OR description LIKE ? OR name LIKE ?
course_matches(keyword, row) ==
    \/ sql_like(row.keywords, like_pattern(keyword))
    \/ sql_like(row.description, like_pattern(keyword))
    \/ sql_like(row.name, like_pattern(keyword))

\* cursor.fetchall() of SELECT name, description FROM courses WHERE ...: the
\* matching rows in id order
select_courses(keyword, rows) ==
    LET hit == SelectSeq([i \in 1..Len(rows) |-> i], LAMBDA i : course_matches(keyword, rows[i]))
    IN  [k \in 1..Len(hit) |-> <<rows[hit[k]].name, rows[hit[k]].description>>]

\* the search that accumulates the rows of every query in a list instead of a set
search_courses_list_results(keywords, has_table, db_fault, rows) ==
    LET RECURSIVE Collect(_)
        Collect(i) == IF i > Len(keywords) THEN <<>>
                      ELSE select_courses(keywords[i], rows) \o Collect(i + 1)
    IN  IF keywords = <<>>
        THEN [result |-> EmptyBag, connections |-> 0, raises |-> FALSE, events |-> <<>>]
        ELSE IF db_fault
        THEN [result |-> EmptyBag, connections |-> 1, raises |-> TRUE,
              events |-> get_connection(TRUE)]
        ELSE [result |-> BagOfSeq(IF has_table THEN Collect(1) ELSE <<>>), connections |-> 1,
              raises |-> FALSE, events |-> get_connection(FALSE)]

\* the search with the keywords joined by AND: the rows every keyword matches
search_courses_all_keywords(keywords, has_table, db_fault, rows) ==
    IF keywords = <<>>
    THEN [result |-> EmptyBag, connections |-> 0, raises |-> FALSE, events |-> <<>>]
    ELSE IF db_fault
    THEN [result |-> EmptyBag, connections |-> 1, raises |-> TRUE,
          events |-> get_connection(TRUE)]
    ELSE [result |-> SetToBag({r \in SeqRange(select_courses(keywords[1], rows)) :
                                  /\ has_table
                                  /\ \A i \in 1..Len(keywords) :
                                        r \in SeqRange(select_courses(keywords[i], rows))}),
          connections |-> 1, raises |-> FALSE, events |-> get_connection(FALSE)]

\* search_courses_by_keywords(keywords) on a store that has the table or not:
\* without the table every query raises sqlite3.Error, which is logged and
\* skipped.  connections counts the get_connection() blocks entered; when
\* sqlite3.connect raises (db_fault) the error leaves the function (raises).
search_courses_by_keywords(keywords, has_table, db_fault, rows) ==
    IF keywords = <<>>
    THEN [result |-> EmptyBag, connections |-> 0, raises |-> FALSE, events |-> <<>>]
    ELSE IF db_fault
    THEN [result |-> EmptyBag, connections |-> 1, raises |-> TRUE,
          events |-> get_connection(TRUE)]
    ELSE [result |-> SetToBag(UNION {IF has_table THEN SeqRange(select_courses(keywords[i], rows))
                                                   ELSE {} : i \in 1..Len(keywords)}),
          connections |-> 1, raises |-> FALSE, events |-> get_connection(FALSE)]

\* add_course(name, description, keywords): INSERT INTO courses; without the
\* table the insert raises sqlite3.Error and add_course returns False
add_course(course, has_table, rows) ==
    IF has_table THEN [ok |-> TRUE, rows |-> Append(rows, course)]
    ELSE [ok |-> FALSE, rows |-> rows]

\* insert_sample_data(): INSERT OR IGNORE of the sample rows; courses has no
\* unique column besides id, so no row is ever ignored
insert_sample_data(rows) == rows \o sample_courses

\* add_pdf_document with INSERT OR IGNORE: a stored filename keeps its old row
add_pdf_document_ignore(doc, has_table, db_fault, docs, seq) ==
    IF ~has_table \/ db_fault
    THEN [ok |-> FALSE, docs |-> docs, seq |-> seq, events |-> get_connection(db_fault)]
    ELSE IF \E d \in docs : d.filename = doc.filename
    THEN [ok |-> TRUE, docs |-> docs, seq |-> seq, events |-> get_connection(FALSE)]
    ELSE [ok |-> TRUE,
          events |-> get_connection(FALSE),
          docs |-> docs \cup {[id |-> seq + 1,
                               filename |-> doc.filename,
                               file_path |-> doc.file_path,
                               title |-> doc.title,
                               extracted_text |-> doc.extracted_text,
                               extracted_keywords |-> doc.extracted_keywords,
                               summary |-> doc.summary,
                               file_size |-> doc.file_size,
                               analysis_status |-> "completed"]},
          seq |-> seq + 1]

\* add_pdf_document that does not write analysis_status: the column keeps its
\* default 'pending'
add_pdf_document_default_status(doc, has_table, db_fault, docs, seq) ==
    IF ~has_table \/ db_fault
    THEN [ok |-> FALSE, docs |-> docs, seq |-> seq, events |-> get_connection(db_fault)]
    ELSE [ok |-> TRUE,
          events |-> get_connection(FALSE),
          docs |-> {d \in docs : d.filename # doc.filename}
                   \cup {[id |-> seq + 1,
                          filename |-> doc.filename,
                          file_path |-> doc.file_path,
                          title |-> doc.title,
                          extracted_text |-> doc.extracted_text,
                          extracted_keywords |-> doc.extracted_keywords,
                          summary |-> doc.summary,
                          file_size |-> doc.file_size,
                          analysis_status |-> "pending"]},
          seq |-> seq + 1]

\* add_pdf_document whose failure leaves the row of the filename deleted
add_pdf_document_partial(doc, has_table, db_fault, docs, seq) ==
    IF ~has_table \/ db_fault
    THEN [ok |-> FALSE, docs |-> {d \in docs : d.filename # doc.filename}, seq |-> seq,
          events |-> get_connection(db_fault)]
    ELSE [ok |-> TRUE,
          events |-> get_connection(FALSE),
          docs |-> {d \in docs : d.filename # doc.filename}
                   \cup {[id |-> seq + 1,
                          filename |-> doc.filename,
                          file_path |-> doc.file_path,
                          title |-> doc.title,
                          extracted_text |-> doc.extracted_text,
                          extracted_keywords |-> doc.extracted_keywords,
                          summary |-> doc.summary,
                          file_size |-> doc.file_size,
                          analysis_status |-> "completed"]},
          seq |-> seq + 1]

\* the columns add_pdf_document leaves to their defaults are id (AUTOINCREMENT)
\* and the timestamps; analysis_status is written as 'completed'.
\* INSERT OR REPLACE: a row with the same filename (UNIQUE) is deleted first.
\* Without the table, or on an I/O fault, sqlite3.Error is caught: False.
add_pdf_document(doc, has_table, db_fault, docs, seq) ==
    IF ~has_table \/ db_fault
    THEN [ok |-> FALSE, docs |-> docs, seq |-> seq, events |-> get_connection(db_fault)]
    ELSE [ok |-> TRUE,
          events |-> get_connection(FALSE),
          docs |-> {d \in docs : d.filename # doc.filename}
                   \cup {[id |-> seq + 1,
                          filename |-> doc.filename,
                          file_path |-> doc.file_path,
                          title |-> doc.title,
                          extracted_text |-> doc.extracted_text,
                          extracted_keywords |-> doc.extracted_keywords,
                          summary |-> doc.summary,
                          file_size |-> doc.file_size,
                          analysis_status |-> "completed"]},
          seq |-> seq + 1]

\* WHERE extracted_keywords LIKE ? OR title LIKE ? OR summary LIKE ?
pdf_matches(keyword, row) ==
    \/ sql_like(row.extracted_keywords, like_pattern(keyword))
    \/ sql_like(row.title, like_pattern(keyword))
    \/ sql_like(row.summary, like_pattern(keyword))

\* cursor.fetchall() of SELECT id, filename, title, extracted_keywords, summary
select_pdf_documents(keyword, docs) ==
    {<<d.id, d.filename, d.title, d.extracted_keywords, d.summary>> :
        d \in {r \in docs : pdf_matches(keyword, r)}}

\* search_pdf_documents_by_keywords without the "if not keywords" test: the
\* connection is opened for an empty list too
search_pdf_documents_unguarded(keywords, has_table, db_fault, docs) ==
    IF db_fault
    THEN [result |-> EmptyBag, connections |-> 1, raises |-> TRUE,
          events |-> get_connection(TRUE)]
    ELSE [result |-> SetToBag(UNION {IF has_table THEN select_pdf_documents(keywords[i], docs)
                                                   ELSE {} : i \in 1..Len(keywords)}),
          connections |-> 1, raises |-> FALSE, events |-> get_connection(FALSE)]

\* search_pdf_documents_by_keywords(keywords)
search_pdf_documents_by_keywords(keywords, has_table, db_fault, docs) ==
    IF keywords = <<>>
    THEN [result |-> EmptyBag, connections |-> 0, raises |-> FALSE, events |-> <<>>]
    ELSE IF db_fault
    THEN [result |-> EmptyBag, connections |-> 1, raises |-> TRUE,
          events |-> get_connection(TRUE)]
    ELSE [result |-> SetToBag(UNION {IF has_table THEN select_pdf_documents(keywords[i], docs)
                                                   ELSE {} : i \in 1..Len(keywords)}),
          connections |-> 1, raises |-> FALSE, events |-> get_connection(FALSE)]

-----------------------------------------------------------------------------
(* src/services/pdf_service.py *)

\* the events of a call of extract_keywords: one ollama.chat request when the
\* text is not blank, which has returned or raised when extract_keywords returns
chat_events(chat_calls) == IF chat_calls > 0 THEN <<"chat">> ELSE <<>>

\* a text-extraction library call that raises
Throws == <<"Throws">>

max_chars == 4000
summary_chars == 200
title_min_len == 3
title_max_len == 100

Ellipsis == <<".", ".", ".">>

Digits == {"0","1","2","3","4","5","6","7","8","9"}
IsLetter(c) == c \in DOMAIN ToLower \/ c \in DOMAIN ToUpper

\* the characters re.sub(r'[^\w\s\.\,\!\?\;\:\-\(\)]', '', text) keeps
CleanKeeps(c) ==
    \/ IsLetter(c) \/ c \in Digits \/ c = "_"
    \/ c \in whitespace
    \/ c \in {".", ",", "!", "?", ";", ":", "-", "(", ")"}

\* s.replace(old, new), old not empty: left to right, without overlap
RECURSIVE replace_from(_, _, _, _)
replace_from(s, old, new, i) ==
    IF i > Len(s) THEN <<>>
    ELSE IF i + Len(old) - 1 <= Len(s) /\ SubSeq(s, i, i + Len(old) - 1) = old
         THEN new \o replace_from(s, old, new, i + Len(old))
         ELSE <<s[i]>> \o replace_from(s, old, new, i + 1)

str_replace(s, old, new) == replace_from(s, old, new, 1)

\* s.title(): a letter after a letter is lower-cased, any other letter upper-cased
str_title(s) ==
    [i \in 1..Len(s) |-> IF i > 1 /\ IsLetter(s[i-1]) THEN char_lower(s[i]) ELSE char_upper(s[i])]

\* os.path.basename(file_path)
basename(file_path) ==
    LET slashes == {i \in 1..Len(file_path) : file_path[i] = "/"}
    IN  IF slashes = {} THEN file_path
        ELSE SubSeq(file_path, SetMax(slashes) + 1, Len(file_path))

_extract_keywords_from_filename(file_path) ==
    LET name == str_replace(str_replace(basename(file_path), <<".","p","d","f">>, <<>>), <<".","P","D","F">>, <<>>)
    IN  str_replace(str_replace(name, <<"_">>, <<" ">>), <<"-">>, <<" ">>)

_clean_text(text) ==
    SelectSeq(str_join(str_split(text), <<" ">>), CleanKeeps)

\* _extract_with_pypdf2(file_path): an exception is logged and "" returned
_extract_with_pypdf2(file) == IF file.pypdf2 = Throws THEN <<>> ELSE file.pypdf2

\* the strategies extract_text_from_pdf attempts, in order: an exception of
\* PyMuPDF is handled by the except clause, which goes to the filename
extraction_strategies(file) ==
    IF file.fitz = Throws
    THEN <<"fitz", "filename">>
    ELSE <<"fitz">>
         \o (IF str_strip(file.fitz) = <<>> THEN <<"pypdf2">> ELSE <<>>)
         \o (IF str_strip(_clean_text(IF str_strip(file.fitz) = <<>>
                                       THEN _extract_with_pypdf2(file) ELSE file.fitz)) = <<>>
             THEN <<"filename">> ELSE <<>>)

\* extract_text_from_pdf(file_path) on a file whose pages PyMuPDF reads as
\* file.fitz and PyPDF2 as file.pypdf2 (Throws: the library raises)
extract_text_from_pdf(file_path, file) ==
    IF file.fitz = Throws
    THEN _extract_keywords_from_filename(file_path)
    ELSE LET text == IF str_strip(file.fitz) = <<>> THEN _extract_with_pypdf2(file)
                                                     ELSE file.fitz
             cleaned == _clean_text(text)
         IN  IF str_strip(cleaned) = <<>> THEN _extract_keywords_from_filename(file_path)
                                           ELSE cleaned

\* the summary cut that marks nothing
_generate_summary_no_ellipsis(text, filename) ==
    IF Len(text) > summary_chars THEN SubSeq(text, 1, summary_chars) ELSE text

_generate_summary(text, filename) ==
    IF Len(text) > summary_chars THEN SubSeq(text, 1, summary_chars) \o Ellipsis ELSE text

TitleLine(line) == /\ line # <<>>
                   /\ Len(line) > title_min_len
                   /\ Len(line) < title_max_len

_extract_title(text, filename) ==
    LET parts == str_split_on(text, "\n")
        lines == SelectSeq([i \in 1..Len(parts) |-> str_strip(parts[i])], TitleLine)
    IN  IF lines # <<>> THEN lines[1]
        ELSE str_title(str_replace(str_replace(filename, <<".","p","d","f">>, <<>>), <<"_">>, <<" ">>))

\* _analyze_with_ai(text, filename) when ollama.chat behaves as response;
\* analyzed_text is the text handed to extract_keywords, _generate_summary and
\* _extract_title
_analyze_with_ai(text, filename, response, cfg) ==
    LET result(cut, kw) ==
            [keywords |-> str_join(kw.keywords, <<",">>),
             summary |-> _generate_summary(cut, filename),
             title |-> _extract_title(cut, filename),
             analyzed_text |-> cut,
             chat_calls |-> kw.chat_calls]
        analyzed(cut) == result(cut, extract_keywords(cut, response, cfg))
    IN  analyzed(IF Len(text) > max_chars THEN SubSeq(text, 1, max_chars) \o Ellipsis ELSE text)

\* analyze_pdf_content without the "if not extracted_text" test
analyze_pdf_content_any_text(file_path, filename, file, response, cfg) ==
    LET result(extracted_text, analysis) ==
            [ok |-> TRUE,
             chat_calls |-> analysis.chat_calls,
             filename |-> filename,
             file_path |-> file_path,
             extracted_text |-> extracted_text,
             extracted_keywords |-> analysis.keywords,
             summary |-> analysis.summary,
             title |-> analysis.title,
             file_size |-> file.size]
        analyzed(extracted_text) ==
            result(extracted_text, _analyze_with_ai(extracted_text, filename, response, cfg))
    IN  analyzed(extract_text_from_pdf(file_path, file))

\* analyze_pdf_content(file_path, filename); ok = FALSE is the empty dict
analyze_pdf_content(file_path, filename, file, response, cfg) ==
    LET result(extracted_text, analysis) ==
            [ok |-> TRUE,
             chat_calls |-> analysis.chat_calls,
             filename |-> filename,
             file_path |-> file_path,
             extracted_text |-> extracted_text,
             extracted_keywords |-> analysis.keywords,
             summary |-> analysis.summary,
             title |-> analysis.title,
             file_size |-> file.size]
        analyzed(extracted_text) ==
            IF extracted_text = <<>>
            THEN [ok |-> FALSE, chat_calls |-> 0]
            ELSE result(extracted_text, _analyze_with_ai(extracted_text, filename, response, cfg))
    IN  analyzed(extract_text_from_pdf(file_path, file))

\* process_pdf_file(file_path): the success flag and the store it leaves
process_pdf_file(file_path, file, response, cfg, db_fault, has_table, docs, seq) ==
    LET persisted(analysis, added) ==
            [success |-> added.ok, stage |-> "persist", chat_calls |-> analysis.chat_calls,
             docs |-> added.docs, seq |-> added.seq,
             raises |-> FALSE, events |-> chat_events(analysis.chat_calls) \o added.events]
        analyzed(analysis) ==
            IF ~analysis.ok
            THEN [success |-> FALSE, stage |-> "analysis", chat_calls |-> analysis.chat_calls,
                  docs |-> docs, seq |-> seq,
                  raises |-> FALSE, events |-> chat_events(analysis.chat_calls)]
            ELSE persisted(analysis, add_pdf_document(analysis, has_table, db_fault, docs, seq))
    IN  IF ~file.exists
        THEN [success |-> FALSE, stage |-> "missing", chat_calls |-> 0, docs |-> docs, seq |-> seq,
              raises |-> FALSE, events |-> <<>>]
        ELSE analyzed(analyze_pdf_content(file_path, basename(file_path), file, response, cfg))

\* results[filename] = success of process_multiple_pdfs: a dict keyed by the
\* basename, in which a later path with the same basename overwrites an earlier
batch_results(outcomes) ==
    LET names == {outcomes[i].filename : i \in DOMAIN outcomes}
        LastOf(n) == SetMax({i \in DOMAIN outcomes : outcomes[i].filename = n})
    IN  [n \in names |-> outcomes[LastOf(n)].success]

\* the loop of process_multiple_pdfs from path i on; an item of the batch is a
\* path with what the file system, the libraries, the backend and the store do
\* when it is processed
RECURSIVE process_from(_, _, _, _, _, _)
process_from(batch, i, cfg, has_table, docs, seq) ==
    IF i > Len(batch)
    THEN [outcomes |-> <<>>, docs |-> docs, seq |-> seq, events |-> <<>>]
    ELSE LET item == batch[i]
             looped(out, rest) ==
                 [outcomes |-> <<[file_path |-> item.file_path,
                                  filename |-> basename(item.file_path),
                                  success |-> out.success]>> \o rest.outcomes,
                  docs |-> rest.docs, seq |-> rest.seq,
                  events |-> out.events \o rest.events]
             processed(out) ==
                 looped(out, process_from(batch, i + 1, cfg, has_table, out.docs, out.seq))
         IN  processed(process_pdf_file(item.file_path, item.file, item.response, cfg,
                                        item.db_fault, has_table, docs, seq))

\* the loop that gives up at the first path that fails
RECURSIVE process_until_failure(_, _, _, _, _, _)
process_until_failure(batch, i, cfg, has_table, docs, seq) ==
    IF i > Len(batch)
    THEN [outcomes |-> <<>>, docs |-> docs, seq |-> seq, events |-> <<>>]
    ELSE LET item == batch[i]
             looped(out, rest) ==
                 [outcomes |-> <<[file_path |-> item.file_path,
                                  filename |-> basename(item.file_path),
                                  success |-> out.success]>> \o rest.outcomes,
                  docs |-> rest.docs, seq |-> rest.seq,
                  events |-> out.events \o rest.events]
             processed(out) ==
                 looped(out, IF out.success
                             THEN process_until_failure(batch, i + 1, cfg, has_table,
                                                        out.docs, out.seq)
                             ELSE [outcomes |-> <<>>, docs |-> out.docs, seq |-> out.seq,
                                   events |-> <<>>])
         IN  processed(process_pdf_file(item.file_path, item.file, item.response, cfg,
                                        item.db_fault, has_table, docs, seq))

process_multiple_pdfs_aborting(batch, cfg, has_table, docs, seq) ==
    LET returned(run) ==
            [results |-> batch_results(run.outcomes), attempted |-> run.outcomes,
             docs |-> run.docs, seq |-> run.seq, raises |-> FALSE, events |-> run.events]
    IN  returned(process_until_failure(batch, 1, cfg, has_table, docs, seq))

\* process_multiple_pdfs(file_paths): attempted lists the paths handed to
\* process_pdf_file, in the order of the calls, with what each returned
process_multiple_pdfs(batch, cfg, has_table, docs, seq) ==
    LET returned(run) ==
            [results |-> batch_results(run.outcomes), attempted |-> run.outcomes,
             docs |-> run.docs, seq |-> run.seq, raises |-> FALSE, events |-> run.events]
    IN  returned(process_from(batch, 1, cfg, has_table, docs, seq))

\* search_pdfs_by_query(query): an exception of the search is logged and []
\* returned
search_pdfs_by_query(query, response, cfg, has_table, db_fault, docs) ==
    LET returned(kw, found) ==
            [result |-> IF found.raises THEN EmptyBag ELSE found.result,
             keywords |-> kw.keywords, path |-> kw.path,
             chat_calls |-> kw.chat_calls, connections |-> found.connections,
             raises |-> FALSE, events |-> chat_events(kw.chat_calls) \o found.events]
        searched(kw) ==
            returned(kw, search_pdf_documents_by_keywords(kw.keywords, has_table, db_fault, docs))
    IN  searched(extract_keywords(query, response, cfg))

\* analyzed_pdfs / total_pdfs * 100 as the fraction num/den; a zero divisor raises
py_percent(analyzed, total) ==
    IF total = 0 THEN [raises |-> TRUE, num |-> 0, den |-> 1]
    ELSE [raises |-> FALSE, num |-> analyzed * 100, den |-> total]

\* 'analysis_rate' without the "if total_pdfs > 0" guard
analysis_rate_unguarded(analyzed, total) == py_percent(analyzed, total)

\* the conditional expression of 'analysis_rate'
analysis_rate(analyzed, total) ==
    IF total > 0 THEN py_percent(analyzed, total) ELSE [raises |-> FALSE, num |-> 0, den |-> 1]

\* get_pdf_statistics(); ok = FALSE is the empty dict returned when
\* get_pdf_documents or the computation raises
get_pdf_statistics(has_table, db_fault, docs) ==
    LET total_pdfs == Cardinality(docs)
        analyzed_pdfs == Cardinality({p \in docs : p.analysis_status = "completed"})
        rate == analysis_rate(analyzed_pdfs, total_pdfs)
    IN  IF ~has_table \/ db_fault \/ rate.raises
        THEN [ok |-> FALSE, raises |-> FALSE, events |-> get_connection(db_fault)]
        ELSE [ok |-> TRUE,
              raises |-> FALSE,
              events |-> get_connection(FALSE),
              total_pdfs |-> total_pdfs,
              analyzed_pdfs |-> analyzed_pdfs,
              pending_pdfs |-> total_pdfs - analyzed_pdfs,
              analysis_rate |-> [num |-> rate.num, den |-> rate.den]]

-----------------------------------------------------------------------------
(* src/app.py *)

\* recommend_courses without its try/except: an exception of the search
\* leaves the call
recommend_courses_no_except(user_input, response, cfg, has_table, db_fault, rows) ==
    IF IsBlank(user_input)
    THEN [result |-> EmptyBag, keywords |-> <<>>, path |-> "empty_input",
          chat_calls |-> 0, connections |-> 0, raises |-> FALSE, events |-> <<>>]
    ELSE LET returned(kw, found) ==
                 [result |-> found.result, keywords |-> kw.keywords, path |-> kw.path,
                  chat_calls |-> kw.chat_calls, connections |-> found.connections,
                  raises |-> found.raises,
                  events |-> chat_events(kw.chat_calls) \o found.events]
             searched(kw) ==
                 IF kw.keywords = <<>>
                 THEN [result |-> EmptyBag, keywords |-> <<>>, path |-> kw.path,
                       chat_calls |-> kw.chat_calls, connections |-> 0,
                       raises |-> FALSE, events |-> chat_events(kw.chat_calls)]
                 ELSE returned(kw, search_courses_by_keywords(kw.keywords, has_table,
                                                              db_fault, rows))
         IN  searched(extract_keywords(user_input, response, cfg))

\* recommend_courses(user_input) when ollama.chat behaves as response; an
\* exception of the search is logged and [] returned
recommend_courses(user_input, response, cfg, has_table, db_fault, rows) ==
    IF IsBlank(user_input)
    THEN [result |-> EmptyBag, keywords |-> <<>>, path |-> "empty_input",
          chat_calls |-> 0, connections |-> 0, raises |-> FALSE, events |-> <<>>]
    ELSE LET returned(kw, found) ==
                 [result |-> IF found.raises THEN EmptyBag ELSE found.result,
                  keywords |-> kw.keywords, path |-> kw.path,
                  chat_calls |-> kw.chat_calls, connections |-> found.connections,
                  raises |-> FALSE,
                  events |-> chat_events(kw.chat_calls) \o found.events]
             searched(kw) ==
                 IF kw.keywords = <<>>
                 THEN [result |-> EmptyBag, keywords |-> <<>>, path |-> kw.path,
                       chat_calls |-> kw.chat_calls, connections |-> 0,
                       raises |-> FALSE, events |-> chat_events(kw.chat_calls)]
                 ELSE returned(kw, search_courses_by_keywords(kw.keywords, has_table,
                                                              db_fault, rows))
         IN  searched(extract_keywords(user_input, response, cfg))

\* (title or filename, summary or "Summary not found") of a search row
format_pdf(pdf) ==
    << IF Falsy(pdf[3]) THEN pdf[2] ELSE pdf[3],
       IF Falsy(pdf[5]) THEN <<"S","u","m","m","a","r","y"," ","n","o","t"," ","f","o","u","n","d">> ELSE pdf[5] >>

\* the list [format_pdf(pdf) for pdf in pdf_results], as a bag
FormattedBag(pdf_results) ==
    LET Rows(v) == {pdf \in BagToSet(pdf_results) : format_pdf(pdf) = v}
    IN  [v \in {format_pdf(pdf) : pdf \in BagToSet(pdf_results)} |->
            BagCardinality([pdf \in Rows(v) |-> pdf_results[pdf]])]

\* recommend_pdfs(user_input) when ollama.chat behaves as response
recommend_pdfs(user_input, response, cfg, has_table, db_fault, docs) ==
    IF IsBlank(user_input)
    THEN [result |-> EmptyBag, keywords |-> <<>>, path |-> "empty_input",
          chat_calls |-> 0, connections |-> 0, raises |-> FALSE, events |-> <<>>]
    ELSE LET formatted(found) ==
                 [result |-> FormattedBag(found.result), keywords |-> found.keywords,
                  path |-> found.path, chat_calls |-> found.chat_calls,
                  connections |-> found.connections,
                  raises |-> found.raises, events |-> found.events]
         IN  formatted(search_pdfs_by_query(user_input, response, cfg, has_table, db_fault, docs))

\* recommend_all that extracts the keywords once and searches both tables
\* with them
recommend_all_shared_keywords(user_input, responses, cfg, has_table, db_faults, rows, docs) ==
    LET both(c, p) ==
            [courses |-> c.result, pdfs |-> p.result,
             chat_calls |-> c.chat_calls,
             connections |-> c.connections + p.connections,
             raises |-> c.raises \/ p.raises,
             events |-> c.events \o p.events]
    IN  both(recommend_courses(user_input, responses[1], cfg, has_table, db_faults[1], rows),
             recommend_pdfs(user_input, responses[1], cfg, has_table, db_faults[2], docs))

\* recommend_all(user_input): recommend_courses, then recommend_pdfs; each
\* makes its own ollama.chat request (responses[1], responses[2]) and opens
\* its own connection (db_faults[1], db_faults[2])
recommend_all(user_input, responses, cfg, has_table, db_faults, rows, docs) ==
    LET both(c, p) ==
            [courses |-> c.result, pdfs |-> p.result,
             chat_calls |-> c.chat_calls + p.chat_calls,
             connections |-> c.connections + p.connections,
             raises |-> c.raises \/ p.raises,
             events |-> c.events \o p.events]
    IN  both(recommend_courses(user_input, responses[1], cfg, has_table, db_faults[1], rows),
             recommend_pdfs(user_input, responses[2], cfg, has_table, db_faults[2], docs))

-----------------------------------------------------------------------------
(* Inputs of the direct calls of extract_keywords and _fallback_keyword_extraction *)

MaxConfig == 3
MaxWords == 2
MaxReplyTerms == 4

\* the values MAX_KEYWORDS and MIN_KEYWORDS may be configured to
Configs ==
    {DefaultConfig} \cup
    {[MAX_KEYWORDS |-> mx, MIN_KEYWORDS |-> mn] : mx \in 0..MaxConfig, mn \in 0..MaxConfig}

SeqsUpTo(S, n) == UNION {[1..k -> S] : k \in 0..n}

\* "I want to do data analysis with Python" (tests/test_main.py)
TextDataAnalysis == <<"I"," ","w","a","n","t"," ","t","o"," ","d","o"," ","d","a","t","a"," ","a","n","a","l","y","s","i","s"," ","w","i","t","h"," ","P","y","t","h","o","n">>
\* "I want to develop mobile applications" (tests/test_main.py)
TextMobile == <<"I"," ","w","a","n","t"," ","t","o"," ","d","e","v","e","l","o","p"," ","m","o","b","i","l","e"," ","a","p","p","l","i","c","a","t","i","o","n","s">>

\* "data", "Data,", "with.", "to", "sql!"
TextWords == {<<"d","a","t","a">>, <<"D","a","t","a",",">>, <<"w","i","t","h",".">>, <<"t","o">>, <<"s","q","l","!">>}

\* "sql data Data. web data"
TextRepeats == <<"s","q","l"," ","d","a","t","a"," ","D","a","t","a","."," ","w","e","b"," ","d","a","t","a">>

BlankTexts == {None, <<>>, <<" ">>, <<" ", "\t", "\n">>}

KwTexts ==
    BlankTexts \cup {TextDataAnalysis, TextMobile, TextRepeats}
    \cup {str_join(ws, <<" ">>) : ws \in SeqsUpTo(TextWords, MaxWords) \ {<<>>}}

\* "ml", "c#"
ReplyTerms == {<<"m","l">>, <<"c","#">>}

\* a reply that lists terms: comma-separated, or with blanks around the
\* terms, an empty fragment in front and a trailing comma
RenderReply(terms, style) ==
    IF style = "plain" THEN str_join(terms, <<",">>)
    ELSE <<" ", ",">> \o str_join([i \in 1..Len(terms) |-> <<" ">> \o terms[i] \o <<" ">>], <<",">>)
         \o <<",", "\n">>

GeneratedReplies ==
    {[terms |-> ts, response |-> Reply(RenderReply(ts, style))] :
        ts \in SeqsUpTo(ReplyTerms, MaxReplyTerms), style \in {"plain", "padded"}}

\* "mobile,android,application" (tests/test_main.py)
FixedReplies ==
    {[terms |-> <<<<"m","o","b","i","l","e">>, <<"a","n","d","r","o","i","d">>, <<"a","p","p","l","i","c","a","t","i","o","n">>>>,
      response |-> Reply(<<"m","o","b","i","l","e",",","a","n","d","r","o","i","d",",","a","p","p","l","i","c","a","t","i","o","n">>)]}

FailureResponses ==
    {[terms |-> <<>>, response |-> r] : r \in {BackendRaises, FalsyReply, NoMessage, NoContent}}

\* The primary path reads the text only in the blank test, and the other paths
\* never read the reply: every text meets every failure, and a few texts meet
\* every reply.
KwArgs ==
    {[text |-> t, terms |-> r.terms, response |-> r.response] :
        t \in KwTexts, r \in FailureResponses \cup FixedReplies}
    \cup
    {[text |-> t, terms |-> r.terms, response |-> r.response] :
        t \in {None, <<" ">>, TextMobile}, r \in GeneratedReplies}

Pending == [keywords |-> <<>>, chat_calls |-> 0, path |-> "pending"]
NoCall == [op |-> "none"]

-----------------------------------------------------------------------------
(* Specification SpecKw: one call of a function of AIService on drawn inputs *)

InitKw ==
    /\ config \in Configs
    /\ arg \in KwArgs
    /\ ret = Pending
    /\ tables_created = FALSE
    /\ courses = <<>>
    /\ pdf_documents = {}
    /\ pdf_seq = 0
    /\ last = NoCall

CallExtractKeywords ==
    /\ ret = Pending
    /\ ret' = extract_keywords(arg.text, arg.response, config)
    /\ UNCHANGED <<config, arg, tables_created, courses, pdf_documents, pdf_seq, last>>

\* the test suite calls the fallback directly, on a str
CallFallbackKeywordExtraction ==
    /\ ret = Pending
    /\ arg.text # None
    /\ ret' = [keywords |-> _fallback_keyword_extraction(arg.text, config),
               chat_calls |-> 0, path |-> "fallback_direct"]
    /\ UNCHANGED <<config, arg, tables_created, courses, pdf_documents, pdf_seq, last>>

NextKw == CallExtractKeywords \/ CallFallbackKeywordExtraction

SpecKw == InitKw /\ [][NextKw]_vars

-----------------------------------------------------------------------------
(* Inputs of the calls on the store and the recommender *)

MaxAddedCourses == 2
MaxCourseSeedings == 2
MaxKeywordList == 2

\* ("SQL", "a_b 100%", "db")
TinyCourse == [name |-> <<"S","Q","L">>, description |-> <<"a","_","b"," ","1","0","0","%">>, keywords |-> <<"d","b">>]

\* what add_new_course is called with: two of the sample rows and a small one
CourseInputs == {sample_courses[1], sample_courses[3], TinyCourse}

\* "mobile", "android", "sql", "%", "_b"
KeywordVocab == {<<"m","o","b","i","l","e">>, <<"a","n","d","r","o","i","d">>, <<"s","q","l">>, <<"%">>, <<"_", "b">>}

KeywordLists == SeqsUpTo(KeywordVocab, MaxKeywordList)

\* "sql mobile"
TextSqlMobile == <<"s","q","l"," ","m","o","b","i","l","e">>

UserInputs == {None, <<>>, <<" ", "\t", "\n">>, TextMobile, TextSqlMobile}

\* "mobile,android,application", " , "
SysResponses == {BackendRaises, NoMessage, Reply(<<"m","o","b","i","l","e",",","a","n","d","r","o","i","d",",","a","p","p","l","i","c","a","t","i","o","n">>), Reply(<<" ", ",", " ">>)}

Idle == last = NoCall

\* the command printed its outcome and the process ended; the store persists
Finish ==
    /\ ~Idle
    /\ last' = NoCall
    /\ UNCHANGED <<config, arg, ret, tables_created, courses, pdf_documents, pdf_seq>>

CreateTables ==
    /\ Idle
    /\ tables_created' = TRUE
    /\ last' = [op |-> "create_tables"]
    /\ UNCHANGED <<config, arg, ret, courses, pdf_documents, pdf_seq>>

\* initialize_database(): create_tables, then insert_sample_data; called while
\* the store holds fewer rows than `seedings` rounds of sample rows
InitializeDatabase(seedings) ==
    /\ Idle
    /\ Len(courses) < seedings * Len(sample_courses)
    /\ tables_created' = TRUE
    /\ courses' = insert_sample_data(courses)
    /\ last' = [op |-> "initialize_database", ok |-> TRUE]
    /\ UNCHANGED <<config, arg, ret, pdf_documents, pdf_seq>>

AddNewCourse ==
    /\ Idle
    /\ Len(courses) < MaxAddedCourses
    /\ \E course \in CourseInputs :
         LET out == add_course(course, tables_created, courses)
         IN  /\ courses' = out.rows
             /\ last' = [op |-> "add_new_course", course |-> course, ok |-> out.ok]
    /\ UNCHANGED <<config, arg, ret, tables_created, pdf_documents, pdf_seq>>

SearchCoursesByKeywords(lists) ==
    /\ Idle
    /\ \E keywords \in lists, db_fault \in BOOLEAN :
         last' = [op |-> "search_courses_by_keywords", keywords |-> keywords,
                  db_fault |-> db_fault,
                  out |-> search_courses_by_keywords(keywords, tables_created, db_fault,
                                                     courses)]
    /\ UNCHANGED <<config, arg, ret, tables_created, courses, pdf_documents, pdf_seq>>

\* every blank input meets a backend that fails and one that would answer;
\* the other inputs meet every backend behaviour on a store that opens, and
\* the test's sentence meets a store that does not open
RecommendCoursesInputs ==
    {[user_input |-> t, response |-> r, db_fault |-> FALSE] :
        t \in {u \in UserInputs : IsBlank(u)}, r \in {BackendRaises, Reply(<<"m","o","b","i","l","e",",","a","n","d","r","o","i","d",",","a","p","p","l","i","c","a","t","i","o","n">>)}}
    \cup {[user_input |-> t, response |-> r, db_fault |-> FALSE] :
             t \in {u \in UserInputs : ~IsBlank(u)}, r \in SysResponses}
    \cup {[user_input |-> TextMobile, response |-> r, db_fault |-> TRUE] :
             r \in {BackendRaises, NoMessage}}

\* a recommend_courses that seeds the sample courses before it searches
RecommendCoursesSeeding ==
    /\ Idle
    /\ \E in \in RecommendCoursesInputs :
         /\ courses' = insert_sample_data(courses)
         /\ last' = [op |-> "recommend_courses", user_input |-> in.user_input,
                     response |-> in.response, db_fault |-> in.db_fault,
                     out |-> recommend_courses(in.user_input, in.response, config,
                                               tables_created, in.db_fault,
                                               insert_sample_data(courses))]
    /\ UNCHANGED <<config, arg, ret, tables_created, pdf_documents, pdf_seq>>

RecommendCourses ==
    /\ Idle
    /\ \E in \in RecommendCoursesInputs :
         last' = [op |-> "recommend_courses", user_input |-> in.user_input,
                  response |-> in.response, db_fault |-> in.db_fault,
                  out |-> recommend_courses(in.user_input, in.response, config,
                                            tables_created, in.db_fault, courses)]
    /\ UNCHANGED <<config, arg, ret, tables_created, courses, pdf_documents, pdf_seq>>

-----------------------------------------------------------------------------
(* Specification SpecCourses: a store filled by add_new_course, and the course search *)

InitSys ==
    /\ config = DefaultConfig
    /\ arg = [text |-> None, terms |-> <<>>, response |-> BackendRaises]
    /\ ret = Pending
    /\ tables_created = FALSE
    /\ courses = <<>>
    /\ pdf_documents = {}
    /\ pdf_seq = 0
    /\ last = NoCall

NextCourses ==
    \/ CreateTables
    \/ AddNewCourse
    \/ SearchCoursesByKeywords(KeywordLists)
    \/ RecommendCourses
    \/ Finish

SpecCourses == InitSys /\ [][NextCourses]_vars

-----------------------------------------------------------------------------
(* Specification SpecSeed: a store seeded by initialize_database, once or
   again, before and after courses are added *)

NextSeed ==
    \/ CreateTables
    \/ InitializeDatabase(MaxCourseSeedings)
    \/ AddNewCourse
    \/ Finish

SpecSeed == InitSys /\ [][NextSeed]_vars

-----------------------------------------------------------------------------
(* Specification Spec: a store seeded by initialize_database, the ingestion
   pipeline and the searches *)

MaxSeedings == 1
MaxIngested == 2
MaxBatch == 2

\* "SQL  basics!\nsql & db"
PageText == <<"S","Q","L"," "," ","b","a","s","i","c","s","!","\n","s","q","l"," ","&"," ","d","b">>

\* the files a path may hold: none, a scanned document without a text layer,
\* a document PyMuPDF cannot open, one PyMuPDF reads, one only PyPDF2 reads
Files ==
    { [exists |-> FALSE, fitz |-> Throws, pypdf2 |-> Throws, size |-> 0],
      [exists |-> TRUE, fitz |-> <<>>, pypdf2 |-> <<"\n">>, size |-> 1],
      [exists |-> TRUE, fitz |-> Throws, pypdf2 |-> PageText, size |-> 1],
      [exists |-> TRUE, fitz |-> PageText, pypdf2 |-> Throws, size |-> 2],
      [exists |-> TRUE, fitz |-> <<" ", "\n">>, pypdf2 |-> PageText, size |-> 2] }

\* "a/ml_notes.pdf", "my.pdf"
FilePaths == {<<"a","/","m","l","_","n","o","t","e","s",".","p","d","f">>, <<"m","y",".","p","d","f">>}

\* "b/ml_notes.pdf": another file with the filename of "a/ml_notes.pdf"
PathNotesB == <<"b","/","m","l","_","n","o","t","e","s",".","p","d","f">>

\* "ml,sql"
IngestResponses == {BackendRaises, NoMessage, Reply(<<"m","l",",","s","q","l">>)}

\* [], ["notes"], ["notes", "ml"], ["sql", "basics"], ["%"]
PdfKeywordLists ==
    { <<>>, <<<<"n","o","t","e","s">>>>, <<<<"n","o","t","e","s">>, <<"m","l">>>>, <<<<"s","q","l">>, <<"b","a","s","i","c","s">>>>, << <<"%">> >> }

\* [], ["mobile", "android"] (tests/test_main.py), ["sql"]
SampleKeywordLists == { <<>>, <<<<"m","o","b","i","l","e">>, <<"a","n","d","r","o","i","d">>>>, <<<<"s","q","l">>>> }

\* "SQL notes"
TextSqlNotes == <<"S","Q","L"," ","n","o","t","e","s">>

\* ".pdf": a path whose filename leaves no pseudo-text
PathDotPdf == <<".", "p", "d", "f">>

\* the files of Files that exist: scanned, not opened by PyMuPDF, read by PyMuPDF
FileScanned == [exists |-> TRUE, fitz |-> <<>>, pypdf2 |-> <<"\n">>, size |-> 1]
FileFitzThrows == [exists |-> TRUE, fitz |-> Throws, pypdf2 |-> PageText, size |-> 1]
FileFitzReads == [exists |-> TRUE, fitz |-> PageText, pypdf2 |-> Throws, size |-> 2]

\* a document whose only text is "ok"
FileShortText == [exists |-> TRUE, fitz |-> <<"o","k">>, pypdf2 |-> Throws, size |-> 1]

\* every path of FilePaths meets every file and backend behaviour on a store
\* that opens; a few ingestions meet a store that does not; the second path of
\* a stored filename and the path without a name meet a few files, one of
\* them with a text too short to be a title
IngestInputs ==
    {[file_path |-> p, file |-> f, response |-> r, db_fault |-> FALSE] :
        p \in FilePaths, f \in Files, r \in IngestResponses}
    \cup {[file_path |-> p, file |-> FileFitzReads, response |-> BackendRaises, db_fault |-> TRUE] :
             p \in FilePaths}
    \cup {[file_path |-> PathNotesB, file |-> FileScanned, response |-> NoMessage, db_fault |-> FALSE],
          [file_path |-> PathNotesB, file |-> FileFitzReads, response |-> Reply(<<"m","l",",","s","q","l">>), db_fault |-> FALSE]}
    \cup {[file_path |-> PathDotPdf, file |-> f, response |-> BackendRaises, db_fault |-> FALSE] :
             f \in {FileScanned, FileFitzThrows, FileShortText}}

\* the batches handed to process_multiple_pdfs: no path, and batches in which
\* a path fails (file missing, no text and no name, store failing) before or
\* after paths that succeed, two of them with the same filename
BatchMissing == [file_path |-> <<"m","y",".","p","d","f">>, file |-> [exists |-> FALSE, fitz |-> Throws, pypdf2 |-> Throws, size |-> 0], response |-> BackendRaises, db_fault |-> FALSE]
BatchNotesA == [file_path |-> <<"a","/","m","l","_","n","o","t","e","s",".","p","d","f">>, file |-> [exists |-> TRUE, fitz |-> PageText, pypdf2 |-> Throws, size |-> 2], response |-> Reply(<<"m","l",",","s","q","l">>), db_fault |-> FALSE]
BatchNotesB == [file_path |-> <<"b","/","m","l","_","n","o","t","e","s",".","p","d","f">>, file |-> [exists |-> TRUE, fitz |-> <<>>, pypdf2 |-> <<"\n">>, size |-> 1], response |-> NoMessage, db_fault |-> FALSE]
BatchStoreFails == [file_path |-> <<"m","y",".","p","d","f">>, file |-> [exists |-> TRUE, fitz |-> PageText, pypdf2 |-> Throws, size |-> 2], response |-> BackendRaises, db_fault |-> TRUE]
BatchNoName == [file_path |-> PathDotPdf, file |-> [exists |-> TRUE, fitz |-> Throws, pypdf2 |-> PageText, size |-> 1], response |-> BackendRaises, db_fault |-> FALSE]

Batches ==
    {b \in { <<>>,
             <<BatchNotesA>>,
             <<BatchMissing, BatchNotesA>>,
             <<BatchNotesA, BatchNotesB>>,
             <<BatchStoreFails, BatchNotesB>>,
             <<BatchNoName, BatchNotesA>>,
             <<BatchNotesA, BatchMissing>>,
             <<BatchNotesA, BatchMissing, BatchNotesB>>,
             <<BatchNoName, BatchStoreFails, BatchNotesA>> } : Len(b) <= MaxBatch}

ProcessPdfFile ==
    /\ Idle
    /\ pdf_seq < MaxIngested
    /\ \E in \in IngestInputs :
         LET Returned(out) ==
                 /\ pdf_documents' = out.docs
                 /\ pdf_seq' = out.seq
                 /\ last' = [op |-> "process_pdf_file", file_path |-> in.file_path,
                             file |-> in.file,
                             response |-> in.response, db_fault |-> in.db_fault,
                             success |-> out.success, stage |-> out.stage,
                             chat_calls |-> out.chat_calls, before |-> pdf_documents,
                             strategies |-> IF in.file.exists
                                            THEN extraction_strategies(in.file) ELSE <<>>,
                             out |-> [raises |-> out.raises, events |-> out.events]]
         IN  Returned(process_pdf_file(in.file_path, in.file, in.response, config, in.db_fault,
                                       tables_created, pdf_documents, pdf_seq))
    /\ UNCHANGED <<config, arg, ret, tables_created, courses>>

SearchPdfDocumentsByKeywords(lists) ==
    /\ Idle
    /\ \E keywords \in lists, db_fault \in BOOLEAN :
         last' = [op |-> "search_pdf_documents_by_keywords", keywords |-> keywords,
                  db_fault |-> db_fault,
                  out |-> search_pdf_documents_by_keywords(keywords, tables_created, db_fault,
                                                           pdf_documents)]
    /\ UNCHANGED <<config, arg, ret, tables_created, courses, pdf_documents, pdf_seq>>

RecommendPdfsInputs ==
    {[user_input |-> t, response |-> Reply(<<"m","o","b","i","l","e",",","a","n","d","r","o","i","d",",","a","p","p","l","i","c","a","t","i","o","n">>), db_fault |-> FALSE] : t \in {None, <<" ">>}}
    \cup {[user_input |-> TextSqlNotes, response |-> r, db_fault |-> FALSE] : r \in SysResponses}
    \cup {[user_input |-> TextSqlNotes, response |-> r, db_fault |-> TRUE] :
             r \in {BackendRaises, NoMessage}}

RecommendPdfs ==
    /\ Idle
    /\ \E in \in RecommendPdfsInputs :
         last' = [op |-> "recommend_pdfs", user_input |-> in.user_input,
                  response |-> in.response, db_fault |-> in.db_fault,
                  out |-> recommend_pdfs(in.user_input, in.response, config, tables_created,
                                         in.db_fault, pdf_documents)]
    /\ UNCHANGED <<config, arg, ret, tables_created, courses, pdf_documents, pdf_seq>>

GetPdfStatistics ==
    /\ Idle
    /\ \E db_fault \in BOOLEAN :
         last' = [op |-> "get_pdf_statistics", db_fault |-> db_fault,
                  out |-> get_pdf_statistics(tables_created, db_fault, pdf_documents)]
    /\ UNCHANGED <<config, arg, ret, tables_created, courses, pdf_documents, pdf_seq>>

\* the backend behaviours of the two requests of recommend_all, and whether
\* the store opens for each of its two searches
RecommendAllInputs ==
    {[user_input |-> <<" ">>, responses |-> <<BackendRaises, BackendRaises>>,
      db_faults |-> <<FALSE, FALSE>>]}
    \cup
    {[user_input |-> t, responses |-> rs, db_faults |-> fs] :
        t \in {TextSqlNotes},
        rs \in {<<BackendRaises, BackendRaises>>,
                <<BackendRaises, Reply(<<"m","o","b","i","l","e">>)>>,
                <<Reply(<<"m","o","b","i","l","e">>), BackendRaises>>},
        fs \in {<<FALSE, FALSE>>, <<TRUE, FALSE>>, <<FALSE, TRUE>>}}

RecommendAll ==
    /\ Idle
    /\ \E in \in RecommendAllInputs :
         last' = [op |-> "recommend_all", user_input |-> in.user_input,
                  responses |-> in.responses, db_faults |-> in.db_faults,
                  out |-> recommend_all(in.user_input, in.responses, config, tables_created,
                                        in.db_faults, courses, pdf_documents)]
    /\ UNCHANGED <<config, arg, ret, tables_created, courses, pdf_documents, pdf_seq>>

ProcessMultiplePdfs ==
    /\ Idle
    /\ \E batch \in Batches :
         LET Returned(out) ==
                 /\ pdf_documents' = out.docs
                 /\ pdf_seq' = out.seq
                 /\ last' = [op |-> "process_multiple_pdfs", batch |-> batch,
                             before |-> pdf_documents, out |-> out]
         IN  /\ pdf_seq + Len(batch) <= MaxIngested
             /\ Returned(process_multiple_pdfs(batch, config, tables_created,
                                               pdf_documents, pdf_seq))
    /\ UNCHANGED <<config, arg, ret, tables_created, courses>>

Next ==
    \/ InitializeDatabase(MaxSeedings)
    \/ ProcessPdfFile
    \/ SearchCoursesByKeywords(SampleKeywordLists)
    \/ SearchPdfDocumentsByKeywords(PdfKeywordLists)
    \/ RecommendCourses
    \/ RecommendPdfs
    \/ GetPdfStatistics
    \/ RecommendAll
    \/ ProcessMultiplePdfs
    \/ Finish

Spec == InitSys /\ [][Next]_vars

-----------------------------------------------------------------------------
(* Specification SpecText: one call of a text function of PDFService on drawn inputs *)

MaxRaw == 3

\* the characters of the generated raw texts: word characters, blanks, a line
\* break, a character of the allow-list and one outside it
RawChars == {"a", "B", " ", "\n", ".", "#"}

\* n times the character c
Repeat(c, n) == [i \in 1..n |-> c]

\* "  This   is   a   test   text   " (tests/test_main.py)
TextDirty == <<" "," ","T","h","i","s"," "," "," ","i","s"," "," "," ","a"," "," "," ","t","e","s","t"," "," "," ","t","e","x","t"," "," "," ">>
\* "Python Programming\nThis is a test document." (tests/test_main.py)
TextTitled == <<"P","y","t","h","o","n"," ","P","r","o","g","r","a","m","m","i","n","g","\n","T","h","i","s"," ","i","s"," ","a"," ","t","e","s","t"," ","d","o","c","u","m","e","n","t",".">>
\* "ab\n  Data Science \nnotes": the first line is too short to be a title
TextSecondLine == <<"a","b","\n"," "," ","D","a","t","a"," ","S","c","i","e","n","c","e"," ","\n","n","o","t","e","s">>
\* "C# & SQL": characters outside the allow-list between words
TextSymbols == <<"C","#"," ","&"," ","S","Q","L">>

\* texts as long as the summary length and the analysis budget, and one longer
LongTexts ==
    {Repeat("x", n) : n \in {summary_chars, summary_chars + 1, max_chars, max_chars + 1}}

\* a line of title_max_len characters before a line that can be a title
TextLongLine == Repeat("x", title_max_len) \o <<"\n">> \o <<"D","a","t","a"," ","S","c","i","e","n","c","e">>

RawTexts ==
    SeqsUpTo(RawChars, MaxRaw)
    \cup {TextDirty, TextTitled, TextSecondLine, TextSymbols, TextLongLine}

\* "test.pdf" (tests/test_main.py), "ml_notes.pdf", ".pdf"
TextFilenames == {<<"t","e","s","t",".","p","d","f">>, <<"m","l","_","n","o","t","e","s",".","p","d","f">>, PathDotPdf}

\* every short text meets every filename and a backend that answers or fails;
\* the long texts meet one filename and the backend that fails
TextArgs ==
    {[text |-> t, filename |-> f, response |-> r] :
        t \in RawTexts, f \in TextFilenames, r \in {BackendRaises, Reply(<<"m","l",",","s","q","l">>)}}
    \cup {[text |-> t, filename |-> <<"t","e","s","t",".","p","d","f">>, response |-> BackendRaises] : t \in LongTexts}

InitText ==
    /\ config = DefaultConfig
    /\ arg \in TextArgs
    /\ ret = Pending
    /\ tables_created = FALSE
    /\ courses = <<>>
    /\ pdf_documents = {}
    /\ pdf_seq = 0
    /\ last = NoCall

CallCleanText ==
    /\ ret = Pending
    /\ ret' = [path |-> "_clean_text", out |-> _clean_text(arg.text)]
    /\ UNCHANGED <<config, arg, tables_created, courses, pdf_documents, pdf_seq, last>>

CallAnalyzeWithAi ==
    /\ ret = Pending
    /\ ret' = [path |-> "_analyze_with_ai",
               out |-> _analyze_with_ai(arg.text, arg.filename, arg.response, config)]
    /\ UNCHANGED <<config, arg, tables_created, courses, pdf_documents, pdf_seq, last>>

CallGenerateSummary ==
    /\ ret = Pending
    /\ ret' = [path |-> "_generate_summary", out |-> _generate_summary(arg.text, arg.filename)]
    /\ UNCHANGED <<config, arg, tables_created, courses, pdf_documents, pdf_seq, last>>

CallExtractTitle ==
    /\ ret = Pending
    /\ ret' = [path |-> "_extract_title", out |-> _extract_title(arg.text, arg.filename)]
    /\ UNCHANGED <<config, arg, tables_created, courses, pdf_documents, pdf_seq, last>>

NextText ==
    \/ CallCleanText
    \/ CallAnalyzeWithAi
    \/ CallGenerateSummary
    \/ CallExtractTitle

SpecText == InitText /\ [][NextText]_vars

-----------------------------------------------------------------------------
(* Properties *)

\* text is None, empty or made of whitespace only
BlankInput(text) == text = None \/ \A i \in 1..Len(text) : text[i] \in whitespace

\* keyword occurs in text as a substring, letters compared without case
Occurs(keyword, text) ==
    \E j \in 0..(Len(text) - Len(keyword)) :
        str_lower(SubSeq(text, j + 1, j + Len(keyword))) = str_lower(keyword)

OccursInCourse(keyword, row) ==
    Occurs(keyword, row.name) \/ Occurs(keyword, row.description) \/ Occurs(keyword, row.keywords)

\* C1: for every user input that is None, empty or whitespace-only,
\* recommend_courses and recommend_pdfs return an empty list and ollama.chat
\* is not called during the call.
C1_BlankInputShortCircuits ==
    (last.op \in {"recommend_courses", "recommend_pdfs"} /\ BlankInput(last.user_input))
        => (last.out.result = EmptyBag /\ last.out.chat_calls = 0)

\* recommend_courses(" \t\n") on the seeded store, with a backend that would answer
C1_Witness ==
    /\ last.op = "recommend_courses"
    /\ last.user_input = <<" ", "\t", "\n">>
    /\ last.response.kind = "reply"
    /\ Len(courses) > 0
    /\ last.out.result = EmptyBag

\* C2: matching is OR across keywords: search_courses_by_keywords returns every
\* course in which at least one keyword of the list occurs (name, description
\* or keyword-tags), whether or not the other keywords occur in it (the store
\* being one that opens).
C2_OrAcrossKeywords ==
    (last.op = "search_courses_by_keywords" /\ ~last.db_fault) =>
        \A i \in DOMAIN courses :
            (\E k \in DOMAIN last.keywords : OccursInCourse(last.keywords[k], courses[i]))
                => BagIn(<<courses[i].name, courses[i].description>>, last.out.result)

\* keywords ["mobile", "android"] (either order) return React Native, whose
\* tags hold "mobile" and which holds "android" nowhere
C2_Witness ==
    /\ last.op = "search_courses_by_keywords"
    /\ SeqRange(last.keywords) = {<<"m","o","b","i","l","e">>, <<"a","n","d","r","o","i","d">>}
    /\ sample_courses[3] \in SeqRange(courses)
    /\ ~OccursInCourse(<<"a","n","d","r","o","i","d">>, sample_courses[3])
    /\ BagIn(<<sample_courses[3].name, sample_courses[3].description>>, last.out.result)

\* the rows of the last search that at least two distinct keywords of the list match
MultiMatched(rows, Matches(_, _)) ==
    {r \in rows : \E i, j \in DOMAIN last.keywords :
                     /\ last.keywords[i] # last.keywords[j]
                     /\ Matches(last.keywords[i], r)
                     /\ Matches(last.keywords[j], r)}

\* C3: de-duplication: a course (a document) that matches two or more distinct
\* keywords of the list appears exactly once in what search_courses_by_keywords
\* (search_pdf_documents_by_keywords) returns, and no item appears twice (a
\* search that raises because the store does not open returns nothing).
C3_Deduplicated ==
    /\ (last.op = "search_courses_by_keywords" /\ ~last.out.raises) =>
         /\ \A r \in MultiMatched(SeqRange(courses), course_matches) :
               CopiesIn(<<r.name, r.description>>, last.out.result) = 1
         /\ \A x \in BagToSet(last.out.result) : CopiesIn(x, last.out.result) = 1
    /\ (last.op = "search_pdf_documents_by_keywords" /\ ~last.out.raises) =>
         /\ \A d \in MultiMatched(pdf_documents, pdf_matches) :
               CopiesIn(<<d.id, d.filename, d.title, d.extracted_keywords, d.summary>>,
                        last.out.result) = 1
         /\ \A x \in BagToSet(last.out.result) : CopiesIn(x, last.out.result) = 1

\* ["mobile", "android"] on the seeded store: Android Development matches both
C3_Witness ==
    /\ last.op = "search_courses_by_keywords"
    /\ last.keywords = <<<<"m","o","b","i","l","e">>, <<"a","n","d","r","o","i","d">>>>
    /\ sample_courses[1] \in MultiMatched(SeqRange(courses), course_matches)
    /\ CopiesIn(<<sample_courses[1].name, sample_courses[1].description>>, last.out.result) = 1

\* the columns an ingestion derives from the document
Analyzed(d) == <<d.title, d.extracted_text, d.extracted_keywords, d.summary>>

StoredAs(filename, docs) == {d \in docs : d.filename = filename}

\* C4: the store holds at most one document row per filename; ingesting a
\* stored filename again does not add a row; the stored title, text,
\* keyword-tags and summary are those of the latest successful ingestion (a
\* failed one leaves the stored row as it was).
C4_UpsertByFilename ==
    /\ \A d1, d2 \in pdf_documents : d1.filename = d2.filename => d1 = d2
    /\ last.op = "process_pdf_file" =>
         LET filename == basename(last.file_path)
             analysis == analyze_pdf_content(last.file_path, filename, last.file,
                                             last.response, config)
         IN  /\ StoredAs(filename, last.before) # {}
                  => Cardinality(pdf_documents) = Cardinality(last.before)
             /\ last.success
                  => {Analyzed(d) : d \in StoredAs(filename, pdf_documents)} = {Analyzed(analysis)}
             /\ ~last.success
                  => StoredAs(filename, pdf_documents) = StoredAs(filename, last.before)

\* a successful ingestion of a stored filename whose analysis differs from the stored one
C4_Witness ==
    /\ last.op = "process_pdf_file"
    /\ last.success
    /\ \E old \in StoredAs(basename(last.file_path), last.before) :
         \A d \in StoredAs(basename(last.file_path), pdf_documents) :
            /\ Analyzed(d) # Analyzed(old)
            /\ d.file_path # old.file_path

\* an existing file from which PyMuPDF and PyPDF2 both read no text
ScannedOnly(file) ==
    /\ file.exists
    /\ file.fitz # Throws /\ str_strip(file.fitz) = <<>>
    /\ file.pypdf2 # Throws /\ str_strip(file.pypdf2) = <<>>

\* C5: ingesting an existing document from which both libraries read empty
\* text succeeds (the store accepting the row), and the stored row has status
\* completed, non-empty keyword-tags and a non-empty summary, its text being
\* the filename pseudo-text, whatever the filename and the backend's behaviour.
C5_ScannedDocumentKeepsSignal ==
    (/\ last.op = "process_pdf_file"
     /\ ScannedOnly(last.file)
     /\ tables_created
     /\ ~last.db_fault)
        => /\ last.success
           /\ \A d \in StoredAs(basename(last.file_path), pdf_documents) :
                /\ d.analysis_status = "completed"
                /\ d.extracted_text = _extract_keywords_from_filename(last.file_path)
                /\ d.extracted_keywords # <<>>
                /\ d.summary # <<>>

\* C6: a reply of the primary path that lists more than MAX_KEYWORDS terms is
\* returned as its first MAX_KEYWORDS terms, in the reply's order, for every
\* configured MIN_KEYWORDS and MAX_KEYWORDS.
C6_TruncatedToMaxKeywords ==
    (ret.path = "primary" /\ Len(arg.terms) > config.MAX_KEYWORDS)
        => ret.keywords = Take(arg.terms, config.MAX_KEYWORDS)

\* C7: every error of the primary path (ollama.chat raises, or its response is
\* malformed) makes extract_keywords return the fallback result for a text
\* that is not blank.
C7_EveryErrorFallsBack ==
    (/\ ret.path \in {"invalid", "fallback", "primary"}
     /\ arg.response.kind # "reply")
        => ret.keywords = _fallback_keyword_extraction(arg.text, config)

\* C8: every term the fallback returns is a token of the input, lower-cased
\* and stripped of the punctuation at its edges, longer than 2 characters and
\* no stop-word; on "I want to do data analysis with Python" (MAX_KEYWORDS
\* positive) the result is not empty and holds neither "want" nor "with".
C8_FallbackTerms ==
    ret.path \in {"fallback", "fallback_direct"} =>
        /\ \A k \in DOMAIN ret.keywords :
             LET t == ret.keywords[k]
             IN  /\ Len(t) > 2
                 /\ t \notin stop_words
                 /\ t = str_lower(t)
                 /\ t[1] \notin strip_punctuation /\ t[Len(t)] \notin strip_punctuation
                 /\ \E w \in SeqRange(str_split(arg.text)) :
                       t = str_strip_chars(str_lower(w), strip_punctuation)
        /\ (arg.text = TextDataAnalysis /\ config.MAX_KEYWORDS > 0) =>
             /\ ret.keywords # <<>>
             /\ <<"w","a","n","t">> \notin SeqRange(ret.keywords)
             /\ <<"w","i","t","h">> \notin SeqRange(ret.keywords)

\* the fallback called on the test's sentence under the default configuration
C8_Witness ==
    /\ ret.path = "fallback_direct"
    /\ arg.text = TextDataAnalysis
    /\ config = DefaultConfig
    /\ ret.keywords = <<<<"d","a","t","a">>, <<"a","n","a","l","y","s","i","s">>, <<"p","y","t","h","o","n">>>>

C10_Statistics ==
    (last.op = "get_pdf_statistics" /\ tables_created /\ ~last.db_fault) =>
        /\ last.out.ok
        /\ last.out.total_pdfs = Cardinality(pdf_documents)
        /\ last.out.total_pdfs = last.out.analyzed_pdfs + last.out.pending_pdfs
        /\ last.out.analyzed_pdfs
              = Cardinality({d \in pdf_documents : d.analysis_status = "completed"})
        /\ last.out.total_pdfs = 0 =>
              /\ last.out.analyzed_pdfs = 0
              /\ last.out.pending_pdfs = 0
              /\ last.out.analysis_rate.num = 0
        /\ last.out.total_pdfs > 0 =>
              last.out.analysis_rate.num * last.out.total_pdfs
                 = last.out.analyzed_pdfs * 100 * last.out.analysis_rate.den

\* the statistics of a store that has the table and no document
C10_Witness ==
    /\ last.op = "get_pdf_statistics"
    /\ tables_created
    /\ pdf_documents = {}
    /\ last.out.ok
    /\ last.out.total_pdfs = 0

\* C11: when extract_keywords returns no keyword for an input that is not
\* blank, recommend_courses and recommend_pdfs return an empty result without
\* entering a get_connection() block: no connection is opened, no row is read.
C11_NoKeywordsNoQuery ==
    (/\ last.op \in {"recommend_courses", "recommend_pdfs"}
     /\ ~BlankInput(last.user_input)
     /\ last.out.keywords = <<>>)
        => /\ last.out.result = EmptyBag
           /\ last.out.connections = 0
           /\ \A i \in DOMAIN last.out.events :
                 last.out.events[i] \notin {"connect", "connect_error", "close"}

\* recommend_pdfs("SQL notes") on a store with documents, the backend's
\* response lacking 'message'
C11_Witness ==
    /\ last.op = "recommend_pdfs"
    /\ last.user_input = TextSqlNotes
    /\ last.response = NoMessage
    /\ tables_created
    /\ pdf_documents # {}
    /\ last.out.keywords = <<>>
    /\ last.out.connections = 0

\* the path can be ingested: the file exists, some text (were it the filename's)
\* is extracted, and the store takes the row
Ingestible(item) ==
    /\ item.file.exists
    /\ extract_text_from_pdf(item.file_path, item.file) # <<>>
    /\ tables_created
    /\ ~item.db_fault

\* C12: process_multiple_pdfs hands every path of its input to
\* process_pdf_file, in the order of the input; a path that fails (missing
\* file, no text, store failure) neither stops the following ones nor raises
\* out of the call: every path that can be ingested is reported successful and
\* has a row, every other is reported failed.
C12_BatchAttemptsEveryPath ==
    last.op = "process_multiple_pdfs" =>
        /\ ~last.out.raises
        /\ Len(last.out.attempted) = Len(last.batch)
        /\ \A i \in DOMAIN last.batch :
              /\ last.out.attempted[i].file_path = last.batch[i].file_path
              /\ last.out.attempted[i].success = Ingestible(last.batch[i])
              /\ Ingestible(last.batch[i])
                    => StoredAs(basename(last.batch[i].file_path), pdf_documents) # {}
        /\ DOMAIN last.out.results = {basename(last.batch[i].file_path) : i \in DOMAIN last.batch}

\* a batch whose first path is a missing file and whose second is ingested
C12_Witness ==
    /\ last.op = "process_multiple_pdfs"
    /\ Len(last.batch) = 2
    /\ ~last.batch[1].file.exists
    /\ ~last.out.attempted[1].success
    /\ last.out.attempted[2].success
    /\ StoredAs(basename(last.batch[2].file_path), pdf_documents) # {}
    /\ StoredAs(basename(last.batch[2].file_path), last.before) = {}

\* C13: no recommend or ingest call raises: for every input, store (the one
\* without tables and the one that does not open included) and backend
\* behaviour, recommend_courses, recommend_pdfs and recommend_all return a
\* result, empty at worst, and process_pdf_file returns a boolean.
C13_NoCallRaises ==
    /\ last.op \in {"recommend_courses", "recommend_pdfs", "recommend_all",
                    "process_pdf_file", "process_multiple_pdfs"}
          => ~last.out.raises
    /\ (last.op \in {"recommend_courses", "recommend_pdfs"}
        /\ (last.db_fault \/ ~tables_created))
          => last.out.result = EmptyBag
    /\ last.op = "process_pdf_file" => last.success \in BOOLEAN

\* recommend_courses with keywords on a store that does not open
C13_Witness ==
    /\ last.op = "recommend_courses"
    /\ last.db_fault
    /\ last.out.keywords # <<>>
    /\ last.out.connections = 1
    /\ last.out.result = EmptyBag
    /\ ~last.out.raises

\* C14: in every reachable store every document row has analysis_status
\* 'completed', whatever the ingestions (single or batch) that wrote it, and
\* get_pdf_statistics reports pending_pdfs = 0.
C14_EveryRowCompleted ==
    /\ \A d \in pdf_documents : d.analysis_status = "completed"
    /\ (last.op = "get_pdf_statistics" /\ last.out.ok) => last.out.pending_pdfs = 0

\* the statistics of a store with two documents
C14_Witness ==
    /\ last.op = "get_pdf_statistics"
    /\ last.out.ok
    /\ last.out.total_pdfs = 2
    /\ last.out.analyzed_pdfs = 2
    /\ last.out.pending_pdfs = 0

\* C15: every document row of the store has a non-empty extracted text or
\* non-empty keyword-tags.
C15_SearchableSignal ==
    \A d \in pdf_documents : d.extracted_text # <<>> \/ d.extracted_keywords # <<>>

\* the ingestion of ".pdf", a file PyMuPDF cannot open: no text, no name, and
\* no row written
C15_Witness ==
    /\ last.op = "process_pdf_file"
    /\ last.file_path = PathDotPdf
    /\ last.file.exists
    /\ extract_text_from_pdf(last.file_path, last.file) = <<>>
    /\ tables_created
    /\ ~last.success
    /\ last.stage = "analysis"
    /\ pdf_documents = last.before

\* C16: the extraction strategies are attempted in order and an exception of
\* one falls through to the next: when PyMuPDF raises, PyPDF2 is attempted
\* before the filename is used (so the text PyPDF2 reads is the one stored),
\* and the filename is used only after both have failed or read no text.
C16_CascadeInOrder ==
    (last.op = "process_pdf_file" /\ last.file.exists) =>
        LET s == last.strategies
        IN  /\ s[1] = "fitz"
            /\ (last.file.fitz = Throws) => (Len(s) >= 2 /\ s[2] = "pypdf2")
            /\ \A i \in DOMAIN s :
                  (s[i] = "filename") => (i = Len(s) /\ \E j \in 1..(i - 1) : s[j] = "pypdf2")
            /\ (/\ last.file.fitz = Throws
                /\ last.file.pypdf2 # Throws
                /\ str_strip(_clean_text(last.file.pypdf2)) # <<>>
                /\ last.success)
                  => \A d \in StoredAs(basename(last.file_path), pdf_documents) :
                        d.extracted_text = _clean_text(last.file.pypdf2)

\* C17: the list extract_keywords returns never holds two equal terms, on the
\* primary path and on the fallback path.
C17_NoEqualTerms ==
    ret.path \in {"blank", "invalid", "primary", "fallback"} =>
        \A i, j \in DOMAIN ret.keywords : (i # j) => (ret.keywords[i] # ret.keywords[j])

\* C18: recommend_all returns two labelled lists: 'courses' is what
\* recommend_courses returns and 'pdfs' what recommend_pdfs returns for the
\* same input, store and backend behaviour; the courses list holds only
\* (name, description) of course rows and the pdfs list only (title, summary)
\* of document rows.
C18_RecommendAllIsBothPaths ==
    last.op = "recommend_all" =>
        /\ last.out.courses
              = recommend_courses(last.user_input, last.responses[1], config, tables_created,
                                  last.db_faults[1], courses).result
        /\ last.out.pdfs
              = recommend_pdfs(last.user_input, last.responses[2], config, tables_created,
                               last.db_faults[2], pdf_documents).result
        /\ \A x \in BagToSet(last.out.courses) :
              \E i \in DOMAIN courses : x = <<courses[i].name, courses[i].description>>
        /\ \A x \in BagToSet(last.out.pdfs) :
              \E d \in pdf_documents :
                 x = format_pdf(<<d.id, d.filename, d.title, d.extracted_keywords, d.summary>>)

\* recommend_all("SQL notes"), the backend answering the first request and
\* failing on the second: courses and documents are both found
C18_Witness ==
    /\ last.op = "recommend_all"
    /\ last.user_input = TextSqlNotes
    /\ last.responses[1].kind = "reply"
    /\ last.responses[2] = BackendRaises
    /\ last.db_faults = <<FALSE, FALSE>>
    /\ last.out.courses # EmptyBag
    /\ last.out.pdfs # EmptyBag
    /\ BagToSet(last.out.courses) \cap BagToSet(last.out.pdfs) = {}

\* the connections open after the first n events of a call
OpenAfter(events, n) ==
    Cardinality({i \in 1..n : events[i] = "connect"})
        - Cardinality({i \in 1..n : events[i] = "close"})

\* C19: no connection is open while a request to the backend is in progress:
\* in every call each connection is opened after the backend request before it
\* has returned and closed before the next request, at most one connection is
\* open at a time, and none is left open when the call returns, whether the
\* store operation succeeded or failed.
C19_NoConnectionAcrossBackendCall ==
    last.op \in {"recommend_courses", "recommend_pdfs", "recommend_all", "process_pdf_file",
                 "process_multiple_pdfs", "get_pdf_statistics",
                 "search_courses_by_keywords", "search_pdf_documents_by_keywords"} =>
        LET events == last.out.events
        IN  /\ \A i \in DOMAIN events :
                  /\ (events[i] = "chat") => (OpenAfter(events, i - 1) = 0)
                  /\ OpenAfter(events, i) \in {0, 1}
            /\ OpenAfter(events, Len(events)) = 0

\* recommend_all with two backend requests and two connections
C19_Witness ==
    /\ last.op = "recommend_all"
    /\ last.out.events = <<"chat", "connect", "close", "chat", "connect", "close">>

SearchOps ==
    {"recommend_courses", "recommend_pdfs", "recommend_all", "get_pdf_statistics",
     "search_courses_by_keywords", "search_pdf_documents_by_keywords"}

\* C20: the search path never changes the store: a call of recommend_courses,
\* recommend_pdfs, recommend_all or get_pdf_statistics (or of a search of the
\* store) leaves every course row and every document row, ids and status
\* included, as it was.
C20_SearchPathLeavesCorpus ==
    [][last'.op \in SearchOps
          => /\ courses' = courses
             /\ pdf_documents' = pdf_documents
             /\ pdf_seq' = pdf_seq
             /\ tables_created' = tables_created]_vars

\* recommend_pdfs returned a document of a store that holds courses and documents
C20_Witness ==
    /\ last.op = "recommend_pdfs"
    /\ last.out.result # EmptyBag
    /\ courses # <<>>
    /\ pdf_documents # {}

OccursInPdf(keyword, row) ==
    \/ (row.title # None /\ Occurs(keyword, row.title))
    \/ (row.summary # None /\ Occurs(keyword, row.summary))
    \/ (row.extracted_keywords # None /\ Occurs(keyword, row.extracted_keywords))

\* C21: matching is a literal substring test without regard to case: every
\* record search_courses_by_keywords returns is the (name, description) of a
\* course in whose name, description or keyword-tags one of the given keywords
\* occurs literally, and every record search_pdf_documents_by_keywords returns
\* is a document in whose title, summary or keyword-tags one occurs literally,
\* for every keyword, those holding '%' or '_' included.
C21_LiteralSubstringMatch ==
    /\ last.op = "search_courses_by_keywords" =>
         \A x \in BagToSet(last.out.result) :
            \E i \in DOMAIN courses :
               /\ x = <<courses[i].name, courses[i].description>>
               /\ \E k \in DOMAIN last.keywords : OccursInCourse(last.keywords[k], courses[i])
    /\ last.op = "search_pdf_documents_by_keywords" =>
         \A x \in BagToSet(last.out.result) :
            \E d \in pdf_documents :
               /\ x = <<d.id, d.filename, d.title, d.extracted_keywords, d.summary>>
               /\ \E k \in DOMAIN last.keywords : OccursInPdf(last.keywords[k], d)

\* C22: when the reply of the primary path lists fewer than MIN_KEYWORDS terms
\* (none included), extract_keywords returns exactly those terms, in the
\* reply's order, nothing added, from the return statement of the primary
\* path: _fallback_keyword_extraction is not called.
C22_ShortReplyAccepted ==
    (/\ ret.path \in {"invalid", "primary", "fallback"}
     /\ arg.response.kind = "reply"
     /\ Len(arg.terms) < config.MIN_KEYWORDS)
        => /\ ret.keywords = arg.terms
           /\ ret.path = "primary"
           /\ ret.chat_calls = 1

\* a reply of one or two terms, fewer than MIN_KEYWORDS, for a text from which
\* the fallback would draw other terms
C22_Witness ==
    /\ ret.path = "primary"
    /\ arg.text = TextMobile
    /\ arg.terms # <<>>
    /\ Len(arg.terms) < config.MIN_KEYWORDS
    /\ Len(arg.terms) <= config.MAX_KEYWORDS
    /\ ret.keywords = arg.terms
    /\ _fallback_keyword_extraction(arg.text, config) # <<>>
    /\ _fallback_keyword_extraction(arg.text, config) # arg.terms

\* the number of occurrences of token t in tokens, and the index of its first
TokenCount(tokens, t) == Cardinality({i \in DOMAIN tokens : tokens[i] = t})
FirstAt(tokens, t) == SetMin({i \in DOMAIN tokens : tokens[i] = t})

\* a ranks before b: more frequent, or as frequent and first seen earlier
Outranks(tokens, a, b) ==
    \/ TokenCount(tokens, a) > TokenCount(tokens, b)
    \/ /\ TokenCount(tokens, a) = TokenCount(tokens, b)
       /\ FirstAt(tokens, a) < FirstAt(tokens, b)

\* C23: the fallback returns at most MAX_KEYWORDS tokens, no two equal, by
\* descending frequency in the input, tokens of equal frequency in order of
\* first occurrence; every kept token ranks before every dropped one, and
\* tokens are dropped only when MAX_KEYWORDS are kept.
C23_FallbackRanking ==
    ret.path \in {"fallback", "fallback_direct"} =>
        LET tokens == fallback_tokens(arg.text)
            kept == ret.keywords
        IN  /\ Len(kept) <= config.MAX_KEYWORDS
            /\ SeqRange(kept) \subseteq SeqRange(tokens)
            /\ \A i, j \in DOMAIN kept : (i < j) => Outranks(tokens, kept[i], kept[j])
            /\ \A t \in SeqRange(tokens) \ SeqRange(kept) :
                  /\ Len(kept) = config.MAX_KEYWORDS
                  /\ \A i \in DOMAIN kept : Outranks(tokens, kept[i], t)

\* "sql data Data. web data" with MAX_KEYWORDS = 2: "data" (3 times) comes
\* before "sql" (once, seen first), and "web" (once, seen later) is dropped
C23_Witness ==
    /\ ret.path \in {"fallback", "fallback_direct"}
    /\ arg.text = TextRepeats
    /\ config.MAX_KEYWORDS = 2
    /\ fallback_tokens(arg.text) = <<<<"s","q","l">>, <<"d","a","t","a">>, <<"d","a","t","a">>,
                                     <<"w","e","b">>, <<"d","a","t","a">>>>
    /\ ret.keywords = <<<<"d","a","t","a">>, <<"s","q","l">>>>

\* C24: an ingestion that returns False (file missing, no text, store failing)
\* leaves the store as it was: no row is added and the row stored under the
\* same filename keeps its title, text, keyword-tags, summary and status; a
\* missing file is rejected before any extraction strategy is attempted and
\* before any request to the backend.  A batch in which every path fails
\* leaves the store as it was.
C24_FailedIngestLeavesCorpus ==
    /\ (last.op = "process_pdf_file" /\ ~last.success) =>
         /\ pdf_documents = last.before
         /\ ~last.file.exists =>
               /\ last.stage = "missing"
               /\ last.strategies = <<>>
               /\ last.chat_calls = 0
               /\ last.out.events = <<>>
    /\ (/\ last.op = "process_multiple_pdfs"
        /\ \A i \in DOMAIN last.out.attempted : ~last.out.attempted[i].success)
          => pdf_documents = last.before

\* the store refuses the second ingestion of a stored filename: the old row stays
C24_Witness ==
    /\ last.op = "process_pdf_file"
    /\ ~last.success
    /\ last.stage = "persist"
    /\ last.db_fault
    /\ StoredAs(basename(last.file_path), last.before) # {}
    /\ StoredAs(basename(last.file_path), pdf_documents)
          = StoredAs(basename(last.file_path), last.before)

\* C25: the text _analyze_with_ai hands to extract_keywords is never longer
\* than the budget of max_chars characters, whatever the length of the text
\* it receives.
C25_AnalyzedTextWithinBudget ==
    ret.path = "_analyze_with_ai" => Len(ret.out.analyzed_text) <= max_chars

\* C26: for every raw text, _clean_text returns a text that holds only
\* characters of the allow-list (word characters, whitespace, . , ! ? ; : - ( )),
\* no two whitespace characters in a row and no whitespace at its start or
\* end; cleaning a cleaned text changes nothing.
C26_CleanTextNormalForm ==
    ret.path = "_clean_text" =>
        LET out == ret.out
        IN  /\ \A i \in DOMAIN out : CleanKeeps(out[i])
            /\ \A i \in 1..(Len(out) - 1) : ~(out[i] \in whitespace /\ out[i+1] \in whitespace)
            /\ out # <<>> => (out[1] \notin whitespace /\ out[Len(out)] \notin whitespace)
            /\ _clean_text(out) = out

\* C27: the summary _analyze_with_ai derives (the one stored with the
\* document) is the first summary_chars characters of the whole text it
\* receives followed by "..." when the text is longer than summary_chars
\* characters, and the whole text, without "...", otherwise; the cut of the
\* text to the analysis budget does not change it.  _generate_summary called
\* on a text returns the same.
C27_SummaryOfFullText ==
    ret.path \in {"_analyze_with_ai", "_generate_summary"} =>
        LET summary == IF ret.path = "_analyze_with_ai" THEN ret.out.summary ELSE ret.out
        IN  /\ Len(arg.text) > summary_chars
                 => summary = SubSeq(arg.text, 1, summary_chars) \o <<".", ".", ".">>
            /\ Len(arg.text) <= summary_chars => summary = arg.text

\* the analysis of a text longer than the analysis budget
C27_Witness ==
    /\ ret.path = "_analyze_with_ai"
    /\ Len(arg.text) > max_chars
    /\ ret.out.analyzed_text # arg.text
    /\ SubSeq(ret.out.analyzed_text, 1, max_chars) = SubSeq(arg.text, 1, max_chars)
    /\ Len(ret.out.summary) = summary_chars + 3

\* the lines of text, stripped, that can be a title: more than title_min_len
\* and fewer than title_max_len characters
TitleCandidates(text) ==
    LET parts == str_split_on(text, "\n")
    IN  SelectSeq([i \in 1..Len(parts) |-> str_strip(parts[i])],
                  LAMBDA line : Len(line) > title_min_len /\ Len(line) < title_max_len)

\* C28: the title of every stored document is the first line of its text
\* that, trimmed, has more than 3 and fewer than 100 characters, and, when no
\* line qualifies, the filename with ".pdf" removed, underscores replaced by
\* blanks, and title-cased; the title of a stored document is never empty.
C28_TitleDerivedNeverEmpty ==
    \A d \in pdf_documents :
        /\ TitleCandidates(d.extracted_text) # <<>>
              => d.title = TitleCandidates(d.extracted_text)[1]
        /\ TitleCandidates(d.extracted_text) = <<>>
              => d.title = str_title(str_replace(str_replace(d.filename, <<".","p","d","f">>, <<>>),
                                                 <<"_">>, <<" ">>))
        /\ d.title # <<>>

\* C29: the mapping process_multiple_pdfs returns reports every path's own
\* outcome: the entry under the filename of path p is what process_pdf_file
\* returned for p, and there are as many entries as paths in the input, two
\* paths with the same filename in different directories included.
C29_BatchReportsEachPath ==
    last.op = "process_multiple_pdfs" =>
        /\ \A i \in DOMAIN last.batch :
              /\ basename(last.batch[i].file_path) \in DOMAIN last.out.results
              /\ last.out.results[basename(last.batch[i].file_path)]
                    = last.out.attempted[i].success
        /\ Cardinality(DOMAIN last.out.results) = Len(last.batch)

\* C30: seeding is idempotent: initialize_database on a store that is seeded
\* adds no course row, and it adds a sample course only when the store does
\* not hold it, so that every sample course is stored exactly once after any
\* number of initializations; the courses and documents stored before are
\* retained.
C30_SeedingIdempotent ==
    [][(last'.op = "initialize_database")
          => /\ (SeqRange(sample_courses) \subseteq SeqRange(courses)) => courses' = courses
             /\ \A s \in SeqRange(sample_courses) :
                   Cardinality({i \in DOMAIN courses' : courses'[i] = s})
                      = IF s \in SeqRange(courses)
                        THEN Cardinality({i \in DOMAIN courses : courses[i] = s})
                        ELSE 1
             /\ \A i \in DOMAIN courses : courses'[i] = courses[i]
             /\ pdf_documents' = pdf_documents]_vars

====
